---- MODULE Spec2Model ----
(***************************************************************************)
(* A model of axconfig-gen: the typed configuration values (value.rs),     *)
(* the type language (ty.rs) and the configuration directory with its      *)
(* merge and update operations (config.rs).                                *)
(*                                                                         *)
(* Strings the code inspects character by character are sequences of       *)
(* one-character strings; keys, table names and comments are only compared *)
(* for equality and ordered, and are plain strings.                        *)
(***************************************************************************)
EXTENDS Integers, Sequences, FiniteSets, TLC

VARIABLES
    raw,        \* the toml_edit::Value handed to the ConfigValue constructor
    cv,         \* the constructor's ConfigResult<ConfigValue>
    inferred,   \* the result of ConfigValue::inferred_type
    matched,    \* the type asked of ConfigValue::type_matches and its answer
    probe,      \* value_type_matches or inferred_type applied to a refused value
    cur,        \* the Config the operations are called on (self)
    before,     \* cur as it was when the operation was called
    arg,        \* the argument handed to the operation
    op,         \* the call under way ("merge", "update", ...), "new" or "idle"
    res,        \* the result the operation returns
    ty_str,     \* the type expression handed to ConfigType::new
    ty_res      \* the ConfigResult<ConfigType> it returned

vars == <<raw, cv, inferred, matched, probe, cur, before, arg, op, res, ty_str, ty_res>>
valueVars == <<raw, cv, inferred, matched, probe>>
configVars == <<cur, before, arg, op, res>>
typeVars == <<ty_str, ty_res>>

(***************************************************************************)
(* Bounds of the model.                                                    *)
(***************************************************************************)
\* nodes (scalars and arrays) of a value handed to the constructor
MaxValueSize == 4
\* nodes of a value whose match is asked against every type
MaxMatchValueSize == 3
\* nodes (atoms, tuples and arrays) of a type asked of type_matches
MaxTypeSize == 3

(***************************************************************************)
(* ConfigResult<T>.                                                        *)
(***************************************************************************)
Ok(x) == [ok |-> TRUE, val |-> x]
Err(e) == [ok |-> FALSE, err |-> e]
None == [none |-> TRUE]

\* ConfigErr (lib.rs)
InvalidValue == [kind |-> "InvalidValue"]
InvalidType == [kind |-> "InvalidType"]
ValueTypeMismatch == [kind |-> "ValueTypeMismatch"]
\* ConfigErr::Other(format!("<what> `{}`", name))
Other(what, name) == [kind |-> "Other", what |-> what, name |-> name]

(***************************************************************************)
(* ConfigType (ty.rs).                                                     *)
(***************************************************************************)
TBool == [t |-> "Bool"]
TInt == [t |-> "Int"]
TUint == [t |-> "Uint"]
TString == [t |-> "String"]
TUnknown == [t |-> "Unknown"]
TTuple(items) == [t |-> "Tuple", items |-> items]
TArray(elem) == [t |-> "Array", elem |-> elem]

(***************************************************************************)
(* toml_edit::Value, the kinds the code tells apart.  Float stands for the *)
(* kinds the code's `_` arms catch (float, datetime, inline table).        *)
(***************************************************************************)
Boolean(b) == [kind |-> "Boolean", b |-> b]
Integer(i) == [kind |-> "Integer", i |-> i]
String(s) == [kind |-> "String", s |-> s]
Array(a) == [kind |-> "Array", arr |-> a]
Float == [kind |-> "Float"]

(***************************************************************************)
(* Characters.                                                             *)
(***************************************************************************)
UpperCase == <<"A", "B", "C", "D", "E", "F", "G", "H", "I", "J", "K", "L", "M",
               "N", "O", "P", "Q", "R", "S", "T", "U", "V", "W", "X", "Y", "Z">>
LowerCase == <<"a", "b", "c", "d", "e", "f", "g", "h", "i", "j", "k", "l", "m",
               "n", "o", "p", "q", "r", "s", "t", "u", "v", "w", "x", "y", "z">>
Digits == <<"0", "1", "2", "3", "4", "5", "6", "7", "8", "9",
            "a", "b", "c", "d", "e", "f">>

IndexOf(seq, c) ==
    IF \E i \in 1..Len(seq) : seq[i] = c
    THEN CHOOSE i \in 1..Len(seq) : seq[i] = c
    ELSE 0

\* char::to_lowercase on the ASCII letters
to_lowercase(s) ==
    [i \in 1..Len(s) |->
        IF IndexOf(UpperCase, s[i]) > 0 THEN LowerCase[IndexOf(UpperCase, s[i])] ELSE s[i]]

\* str::replace(c, "")
RECURSIVE remove_char(_, _)
remove_char(s, c) ==
    IF s = <<>> THEN <<>>
    ELSE IF Head(s) = c THEN remove_char(Tail(s), c)
    ELSE <<Head(s)>> \o remove_char(Tail(s), c)

\* str::strip_prefix
has_prefix(s, p) == Len(s) >= Len(p) /\ SubSeq(s, 1, Len(p)) = p
strip_prefix(s, p) == SubSeq(s, Len(p) + 1, Len(s))

\* char::to_digit(radix): the digit's value, or -1
to_digit(c, radix) ==
    IF IndexOf(Digits, c) > 0 /\ IndexOf(Digits, c) <= radix THEN IndexOf(Digits, c) - 1 ELSE -1

RECURSIVE strip_zeros(_)
strip_zeros(ds) == IF ds /= <<>> /\ Head(ds) = 0 THEN strip_zeros(Tail(ds)) ELSE ds

Repeat(d, n) == [i \in 1..n |-> d]

\* usize::MAX (2^64 - 1) written in the radix
usize_max_digits(radix) ==
    CASE radix = 16 -> Repeat(15, 16)
      [] radix = 2 -> Repeat(1, 64)
      [] radix = 8 -> <<1>> \o Repeat(7, 21)
      [] radix = 10 -> <<1, 8, 4, 4, 6, 7, 4, 4, 0, 7, 3, 7, 0, 9, 5, 5, 1, 6, 1, 5>>

RECURSIVE lex_greater(_, _)
lex_greater(a, b) ==
    IF a = <<>> THEN FALSE
    ELSE IF Head(a) /= Head(b) THEN Head(a) > Head(b)
    ELSE lex_greater(Tail(a), Tail(b))

\* the digits, most significant first, exceed usize::MAX
overflows(ds, radix) ==
    LET sig == strip_zeros(ds)
        max == usize_max_digits(radix)
    IN  \/ Len(sig) > Len(max)
        \/ Len(sig) = Len(max) /\ lex_greater(sig, max)

\* usize::from_str_radix(s, radix).is_ok(): not empty, an optional `+`, then
\* one or more digits of the radix whose value fits in a usize
from_str_radix_is_ok(s, radix) ==
    /\ s /= <<>>
    /\ LET digits == IF Head(s) = "+" THEN Tail(s) ELSE s
           ds == [i \in 1..Len(digits) |-> to_digit(digits[i], radix)]
       IN  /\ digits /= <<>>
           /\ \A i \in 1..Len(ds) : ds[i] >= 0
           /\ ~overflows(ds, radix)

is_num(str) ==
    LET s == remove_char(to_lowercase(str), "_")
    IN  IF has_prefix(s, <<"0", "x">>) THEN from_str_radix_is_ok(strip_prefix(s, <<"0", "x">>), 16)
        ELSE IF has_prefix(s, <<"0", "b">>) THEN from_str_radix_is_ok(strip_prefix(s, <<"0", "b">>), 2)
        ELSE IF has_prefix(s, <<"0", "o">>) THEN from_str_radix_is_ok(strip_prefix(s, <<"0", "o">>), 8)
        ELSE from_str_radix_is_ok(s, 10)

(***************************************************************************)
(* ty.rs: parsing a type expression.                                       *)
(***************************************************************************)
\* the scan of split_tuple_items without the test for an empty item: an item
\* of no characters is left out
RECURSIVE split_tuple_scan_lenient(_, _, _, _, _)
split_tuple_scan_lenient(s, idx, start, level, items) ==
    IF idx >= Len(s)
    THEN IF level = 0
         THEN Ok(IF start < Len(s) THEN Append(items, SubSeq(s, start + 1, Len(s))) ELSE items)
         ELSE None
    ELSE LET c == s[idx + 1]
             level1 == CASE c = "(" -> level + 1
                         [] c = ")" -> level - 1
                         [] OTHER -> level
         IN  IF c = "," /\ level = 0
             THEN split_tuple_scan_lenient(s, idx + 1, idx + 1, level,
                      IF start < idx THEN Append(items, SubSeq(s, start + 1, idx)) ELSE items)
             ELSE IF level1 < 0 THEN None
             ELSE split_tuple_scan_lenient(s, idx + 1, start, level1, items)

\* the scan of split_tuple_items from byte index idx on; start, idx and level
\* are the code's (0-based) values; None is the code's None
RECURSIVE split_tuple_scan(_, _, _, _, _)
split_tuple_scan(s, idx, start, level, items) ==
    IF idx >= Len(s)
    THEN IF level = 0 /\ start < Len(s)
         THEN Ok(Append(items, SubSeq(s, start + 1, Len(s))))
         ELSE None
    ELSE LET c == s[idx + 1]
             level1 == CASE c = "(" -> level + 1
                         [] c = ")" -> level - 1
                         [] OTHER -> level
         IN  IF c = "," /\ level = 0
             THEN IF start < idx
                  THEN split_tuple_scan(s, idx + 1, idx + 1, level,
                                        Append(items, SubSeq(s, start + 1, idx)))
                  ELSE None
             ELSE IF level1 < 0 THEN None
             ELSE split_tuple_scan(s, idx + 1, start, level1, items)

split_tuple_items(s) == split_tuple_scan(s, 0, 0, 0, <<>>)

\* ConfigType::new of a build without cfg(test)
RECURSIVE ConfigType_new(_)
ConfigType_new(str) ==
    LET ty == remove_char(str, " ")
    IN  CASE ty = <<"b", "o", "o", "l">> -> Ok(TBool)
          [] ty = <<"i", "n", "t">> -> Ok(TInt)
          [] ty = <<"u", "i", "n", "t">> -> Ok(TUint)
          [] ty = <<"s", "t", "r">> -> Ok(TString)
          [] OTHER ->
                IF has_prefix(ty, <<"(">>) /\ ty[Len(ty)] = ")"
                THEN LET tuple == SubSeq(ty, 2, Len(ty) - 1)
                     IN  IF tuple = <<>> THEN Ok(TTuple(<<>>))
                         ELSE LET items == split_tuple_items(tuple)
                              IN  IF items = None THEN Err(InvalidType)
                                  ELSE LET rs == [i \in 1..Len(items.val) |->
                                                    ConfigType_new(items.val[i])]
                                       IN  IF \E i \in 1..Len(rs) : ~rs[i].ok
                                           THEN Err(InvalidType)
                                           ELSE Ok(TTuple([i \in 1..Len(rs) |-> rs[i].val]))
                ELSE IF has_prefix(ty, <<"[">>) /\ ty[Len(ty)] = "]"
                THEN LET element == SubSeq(ty, 2, Len(ty) - 1)
                     IN  IF element = <<>> THEN Err(InvalidType)
                         ELSE LET r == ConfigType_new(element)
                              IN  IF r.ok THEN Ok(TArray(r.val)) ELSE r
                ELSE Err(InvalidType)

(***************************************************************************)
(* value.rs: validity, matching, inference.                                *)
(***************************************************************************)
\* value_is_valid without the descent into the elements of an array
value_is_valid_shallow(value) == value.kind \in {"Boolean", "Integer", "String", "Array"}

RECURSIVE value_is_valid(_)
value_is_valid(value) ==
    CASE value.kind \in {"Boolean", "Integer", "String"} -> TRUE
      [] value.kind = "Array" ->
            \A i \in 1..Len(value.arr) : value_is_valid(value.arr[i])
      [] OTHER -> FALSE

\* value_type_matches with the sign of an integer checked against Uint
RECURSIVE value_type_matches_signed(_, _)
value_type_matches_signed(value, ty) ==
    CASE value.kind = "Boolean" /\ ty.t = "Bool" -> TRUE
      [] value.kind = "Integer" /\ ty.t = "Int" -> TRUE
      [] value.kind = "Integer" /\ ty.t = "Uint" -> value.i >= 0
      [] value.kind = "String" ->
            IF is_num(value.s)
            THEN ty.t \in {"Int", "Uint", "String"}
            ELSE ty.t = "String"
      [] value.kind = "Array" /\ ty.t = "Tuple" ->
            IF Len(value.arr) /= Len(ty.items) THEN FALSE
            ELSE \A i \in 1..Len(value.arr) :
                    value_type_matches_signed(value.arr[i], ty.items[i])
      [] value.kind = "Array" /\ ty.t = "Array" ->
            \A i \in 1..Len(value.arr) : value_type_matches_signed(value.arr[i], ty.elem)
      [] OTHER -> FALSE

\* value_type_matches without the comparison of the lengths of array and tuple:
\* zip stops at the shorter of the two
RECURSIVE value_type_matches_zip(_, _)
value_type_matches_zip(value, ty) ==
    CASE value.kind = "Boolean" /\ ty.t = "Bool" -> TRUE
      [] value.kind = "Integer" /\ ty.t \in {"Int", "Uint"} -> TRUE
      [] value.kind = "String" ->
            IF is_num(value.s)
            THEN ty.t \in {"Int", "Uint", "String"}
            ELSE ty.t = "String"
      [] value.kind = "Array" /\ ty.t = "Tuple" ->
            \A i \in 1..Len(value.arr) :
                i <= Len(ty.items) => value_type_matches_zip(value.arr[i], ty.items[i])
      [] value.kind = "Array" /\ ty.t = "Array" ->
            \A i \in 1..Len(value.arr) : value_type_matches_zip(value.arr[i], ty.elem)
      [] OTHER -> FALSE

RECURSIVE value_type_matches(_, _)
value_type_matches(value, ty) ==
    CASE value.kind = "Boolean" /\ ty.t = "Bool" -> TRUE
      [] value.kind = "Integer" /\ ty.t \in {"Int", "Uint"} -> TRUE
      [] value.kind = "String" ->
            IF is_num(value.s)
            THEN ty.t \in {"Int", "Uint", "String"}
            ELSE ty.t = "String"
      [] value.kind = "Array" /\ ty.t = "Tuple" ->
            IF Len(value.arr) /= Len(ty.items) THEN FALSE
            ELSE \A i \in 1..Len(value.arr) : value_type_matches(value.arr[i], ty.items[i])
      [] value.kind = "Array" /\ ty.t = "Array" ->
            \A i \in 1..Len(value.arr) : value_type_matches(value.arr[i], ty.elem)
      [] OTHER -> FALSE

\* the loop of inferred_type without the comparison to types[0]
RECURSIVE same_type_scan_no_compare(_, _)
same_type_scan_no_compare(types, i) ==
    IF i > Len(types) THEN "same"
    ELSE IF types[i] = TUnknown THEN "unknown"
    ELSE same_type_scan_no_compare(types, i + 1)

\* the loop over `types` of inferred_type, from index i on:
\* "unknown" (return Unknown), "differ" (all_same = false; break) or "same"
RECURSIVE same_type_scan(_, _)
same_type_scan(types, i) ==
    IF i > Len(types) THEN "same"
    ELSE IF types[i] = TUnknown THEN "unknown"
    ELSE IF types[i] /= types[1] THEN "differ"
    ELSE same_type_scan(types, i + 1)

\* inferred_type with `val <= 0` for `val < 0`
RECURSIVE inferred_type_zero_int(_)
inferred_type_zero_int(value) ==
    CASE value.kind = "Boolean" -> Ok(TBool)
      [] value.kind = "Integer" -> IF value.i <= 0 THEN Ok(TInt) ELSE Ok(TUint)
      [] value.kind = "String" -> IF is_num(value.s) THEN Ok(TUint) ELSE Ok(TString)
      [] value.kind = "Array" ->
            LET results == [i \in 1..Len(value.arr) |-> inferred_type_zero_int(value.arr[i])]
            IN  IF \E i \in 1..Len(results) : ~results[i].ok
                THEN Err(InvalidValue)
                ELSE LET types == [i \in 1..Len(results) |-> results[i].val]
                     IN  IF types = <<>> THEN Ok(TUnknown)
                         ELSE CASE same_type_scan(types, 1) = "unknown" -> Ok(TUnknown)
                                [] same_type_scan(types, 1) = "same" -> Ok(TArray(types[1]))
                                [] OTHER -> Ok(TTuple(types))
      [] OTHER -> Err(InvalidValue)

RECURSIVE inferred_type(_)
inferred_type(value) ==
    CASE value.kind = "Boolean" -> Ok(TBool)
      [] value.kind = "Integer" -> IF value.i < 0 THEN Ok(TInt) ELSE Ok(TUint)
      [] value.kind = "String" -> IF is_num(value.s) THEN Ok(TUint) ELSE Ok(TString)
      [] value.kind = "Array" ->
            LET results == [i \in 1..Len(value.arr) |-> inferred_type(value.arr[i])]
            IN  IF \E i \in 1..Len(results) : ~results[i].ok
                THEN Err(InvalidValue)
                ELSE LET types == [i \in 1..Len(results) |-> results[i].val]
                     IN  IF types = <<>> THEN Ok(TUnknown)
                         ELSE CASE same_type_scan(types, 1) = "unknown" -> Ok(TUnknown)
                                [] same_type_scan(types, 1) = "same" -> Ok(TArray(types[1]))
                                [] OTHER -> Ok(TTuple(types))
      [] OTHER -> Err(InvalidValue)

(***************************************************************************)
(* ConfigValue (value.rs).                                                 *)
(***************************************************************************)
ConfigValue(value, ty) == [value |-> value, ty |-> ty]

new_with_value(value) ==
    IF ~value_is_valid(value) THEN Err(InvalidValue)
    ELSE Ok(ConfigValue(value, None))

new_with_value_type(value, ty) ==
    IF ~value_is_valid(value) THEN Err(InvalidValue)
    ELSE IF value_type_matches(value, ty) THEN Ok(ConfigValue(value, ty))
    ELSE Err(ValueTypeMismatch)

(***************************************************************************)
(* config.rs: ConfigItem, Config.                                          *)
(*                                                                         *)
(* A ConfigTable (BTreeMap<String, ConfigItem>) is a function from the     *)
(* keys it holds to their items.  A BTreeMap iterates in the order of its  *)
(* keys: NameOrder lists the strings the model uses as keys and table      *)
(* names in that (byte-wise lexicographic) order.                          *)
(***************************************************************************)
NameOrder == <<"A", "__GLOBAL__", "a", "b", "t">>

\* BTreeMap::keys: the keys of the map, in order
RECURSIVE sorted_from(_, _)
sorted_from(S, i) ==
    IF i > Len(NameOrder) THEN <<>>
    ELSE (IF NameOrder[i] \in S THEN <<NameOrder[i]>> ELSE <<>>) \o sorted_from(S, i + 1)
\* the keys of the map, the greatest first
keys_descending(map) ==
    LET ks == sorted_from(DOMAIN map, 1)
    IN  [i \in 1..Len(ks) |-> ks[Len(ks) + 1 - i]]

keys(map) == sorted_from(DOMAIN map, 1)

\* BTreeMap::insert
insert(map, k, v) == [x \in DOMAIN map \cup {k} |-> IF x = k THEN v ELSE map[x]]

EmptyMap == <<>>

ConfigItem(key, value, comments) == [key |-> key, value |-> value, comments |-> comments]

\* str::trim and str::trim_start_matches
RECURSIVE trim_start_matches(_, _)
trim_start_matches(s, c) ==
    IF s /= <<>> /\ Head(s) = c THEN trim_start_matches(Tail(s), c) ELSE s
RECURSIVE trim_end(_)
trim_end(s) == IF s /= <<>> /\ s[Len(s)] = " " THEN trim_end(SubSeq(s, 1, Len(s) - 1)) ELSE s
trim(s) == trim_end(trim_start_matches(s, " "))

\* ConfigItem::new of the entry of a parsed document under the key: the entry's
\* value, the comment lines before the key (prefix) and the comment after the
\* value (suffix)
ConfigItem_new(key, entry) ==
    LET suffix == trim(entry.suffix)
        value == IF suffix /= <<>>
                 THEN LET ty == ConfigType_new(trim_start_matches(suffix, "#"))
                      IN  IF ty.ok THEN new_with_value_type(entry.value, ty.val) ELSE ty
                 ELSE new_with_value(entry.value)
    IN  IF value.ok THEN Ok(ConfigItem(key, value.val, entry.prefix)) ELSE value

\* Config::new
Config_new == [global |-> EmptyMap, tables |-> EmptyMap, table_comments |-> EmptyMap]

\* Config::new_table: the configuration with the new table, or the error
\* new_table without the test for the reserved name
new_table_unreserved(self, name, comments) ==
    IF name \in DOMAIN self.tables THEN Err(Other("Duplicate table name", name))
    ELSE Ok([self EXCEPT !.tables = insert(self.tables, name, EmptyMap),
                         !.table_comments = insert(self.table_comments, name, comments)])

new_table(self, name, comments) ==
    IF name = "__GLOBAL__" THEN Err(Other("Table name is reserved", "__GLOBAL__"))
    ELSE IF name \in DOMAIN self.tables THEN Err(Other("Duplicate table name", name))
    ELSE Ok([self EXCEPT !.tables = insert(self.tables, name, EmptyMap),
                         !.table_comments = insert(self.table_comments, name, comments)])

\* other_iter of table_iter: self.tables.iter() with the documentation of each
RECURSIVE other_iter(_, _, _)
other_iter(self, names, i) ==
    IF i > Len(names) THEN <<>>
    ELSE <<[name |-> names[i], table |-> self.tables[names[i]],
            comments |-> self.table_comments[names[i]]]>>
         \o other_iter(self, names, i + 1)

\* table_iter without the global table
table_iter_named_only(self) ==
    LET names == keys(self.tables)
    IN  [i \in 1..Len(names) |->
            [name |-> names[i], table |-> self.tables[names[i]],
             comments |-> self.table_comments[names[i]]]]

\* Config::table_iter: the global table under its name, then the named tables
table_iter(self) ==
    <<[name |-> "__GLOBAL__", table |-> self.global, comments |-> ""]>>
    \o other_iter(self, keys(self.tables), 1)

\* the items of one table, as Config::iter yields them
table_items(name, table) ==
    LET ks == keys(table)
    IN  [i \in 1..Len(ks) |-> [table |-> name, key |-> ks[i], item |-> table[ks[i]]]]

RECURSIVE flat_map_items(_, _)
flat_map_items(tabs, i) ==
    IF i > Len(tabs) THEN <<>>
    ELSE table_items(tabs[i].name, tabs[i].table) \o flat_map_items(tabs, i + 1)

\* Config::iter: global_iter.chain(other_iter), other_iter over table_iter
iter(self) == table_items("__GLOBAL__", self.global) \o flat_map_items(table_iter(self), 1)

\* Option::Some
Some(x) == [some |-> x]

\* Config::table_at and Config::table_at_mut
table_at(self, name) ==
    IF name \in DOMAIN self.tables THEN Some(self.tables[name]) ELSE None

\* Config::config_at and Config::config_at_mut
config_at(self, table, key) ==
    LET t == table_at(self, table)
    IN  IF t = None THEN None
        ELSE IF key \in DOMAIN t.some THEN Some(t.some[key]) ELSE None

\* the table of self an operation works on under the name
table_of(self, name) == IF name = "__GLOBAL__" THEN self.global ELSE self.tables[name]
with_table(self, name, table) ==
    IF name = "__GLOBAL__" THEN [self EXCEPT !.global = table]
    ELSE [self EXCEPT !.tables[name] = table]

Outcome(self, result) == [cfg |-> self, res |-> result]

(***************************************************************************)
(* Config::merge.                                                          *)
(***************************************************************************)
\* the inner loop of merge without the test for a duplicate key: insert replaces
RECURSIVE merge_items_overwrite(_, _, _, _, _)
merge_items_overwrite(self, name, other_table, ks, j) ==
    IF j > Len(ks) THEN Outcome(self, Ok(None))
    ELSE merge_items_overwrite(
             with_table(self, name, insert(table_of(self, name), ks[j], other_table[ks[j]])),
             name, other_table, ks, j + 1)

\* the inner loop of merge over the keys ks of other_table, from index j on
RECURSIVE merge_items(_, _, _, _, _)
merge_items(self, name, other_table, ks, j) ==
    IF j > Len(ks) THEN Outcome(self, Ok(None))
    ELSE LET key == ks[j]
             self_table == table_of(self, name)
         IN  IF key \in DOMAIN self_table
             THEN Outcome(self, Err(Other("Duplicate key", key)))
             ELSE merge_items(with_table(self, name, insert(self_table, key, other_table[key])),
                              name, other_table, ks, j + 1)

\* the outer loop of merge over other.table_iter(), from index i on
RECURSIVE merge_tables(_, _, _)
merge_tables(self, tabs, i) ==
    IF i > Len(tabs) THEN Outcome(self, Ok(None))
    ELSE LET name == tabs[i].name
             made == IF name = "__GLOBAL__" \/ name \in DOMAIN self.tables
                     THEN Ok(self)
                     ELSE new_table(self, name, tabs[i].comments)
         IN  IF ~made.ok THEN Outcome(self, made)
             ELSE LET inner == merge_items(made.val, name, tabs[i].table, keys(tabs[i].table), 1)
                  IN  IF ~inner.res.ok THEN inner
                      ELSE merge_tables(inner.cfg, tabs, i + 1)

merge(self, other) == merge_tables(self, table_iter(other), 1)

(***************************************************************************)
(* Config::update.                                                         *)
(***************************************************************************)
\* the loop of update without the test for a declared type: an item without
\* one takes the other value as it is
RECURSIVE update_items_untyped(_, _, _)
update_items_untyped(self, its, i) ==
    IF i > Len(its) THEN Outcome(self, Ok(None))
    ELSE LET table_name == its[i].table
             key == its[i].key
         IN  IF table_name /= "__GLOBAL__" /\ table_name \notin DOMAIN self.tables
             THEN update_items_untyped(self, its, i + 1)
             ELSE LET table == table_of(self, table_name)
                  IN  IF key \in DOMAIN table
                      THEN LET new_value ==
                                   IF table[key].value.ty /= None
                                   THEN new_with_value_type(its[i].item.value.value,
                                                            table[key].value.ty)
                                   ELSE new_with_value(its[i].item.value.value)
                           IN  IF new_value.ok
                               THEN update_items_untyped(
                                        with_table(self, table_name,
                                            [table EXCEPT ![key].value = new_value.val]),
                                        its, i + 1)
                               ELSE Outcome(self, Err(ValueTypeMismatch))
                      ELSE update_items_untyped(self, its, i + 1)

\* the loop of update with `self_item.value = item.value.clone()`: the value
\* that matches is taken with the type the other configuration declares for it
RECURSIVE update_items_cloned(_, _, _)
update_items_cloned(self, its, i) ==
    IF i > Len(its) THEN Outcome(self, Ok(None))
    ELSE LET table_name == its[i].table
             key == its[i].key
         IN  IF table_name /= "__GLOBAL__" /\ table_name \notin DOMAIN self.tables
             THEN update_items_cloned(self, its, i + 1)
             ELSE LET table == table_of(self, table_name)
                  IN  IF key \in DOMAIN table /\ table[key].value.ty /= None
                      THEN IF new_with_value_type(its[i].item.value.value,
                                                  table[key].value.ty).ok
                           THEN update_items_cloned(
                                    with_table(self, table_name,
                                        [table EXCEPT ![key].value = its[i].item.value]),
                                    its, i + 1)
                           ELSE Outcome(self, Err(ValueTypeMismatch))
                      ELSE update_items_cloned(self, its, i + 1)

\* the loop of update over other.iter(), from index i on
RECURSIVE update_items(_, _, _)
update_items(self, its, i) ==
    IF i > Len(its) THEN Outcome(self, Ok(None))
    ELSE LET table_name == its[i].table
             key == its[i].key
         IN  IF table_name /= "__GLOBAL__" /\ table_name \notin DOMAIN self.tables
             THEN update_items(self, its, i + 1)
             ELSE LET table == table_of(self, table_name)
                  IN  IF key \in DOMAIN table /\ table[key].value.ty /= None
                      THEN LET new_value == new_with_value_type(its[i].item.value.value,
                                                                table[key].value.ty)
                           IN  IF new_value.ok
                               THEN update_items(
                                        with_table(self, table_name,
                                            [table EXCEPT ![key].value = new_value.val]),
                                        its, i + 1)
                               ELSE Outcome(self, Err(ValueTypeMismatch))
                      ELSE update_items(self, its, i + 1)

update(self, other) == update_items(self, iter(other), 1)

(***************************************************************************)
(* Config::from_toml of a parsed document: the entries of the root table   *)
(* (values and tables of values), functions of their keys.                 *)
(***************************************************************************)
\* the loop over the values of a table of the document
RECURSIVE from_toml_items(_, _, _, _, _)
from_toml_items(result, name, entries, ks, j) ==
    IF j > Len(ks) THEN Outcome(result, Ok(None))
    ELSE LET item == ConfigItem_new(ks[j], entries[ks[j]])
         IN  IF ~item.ok THEN Outcome(result, item)
             ELSE from_toml_items(
                      with_table(result, name, insert(table_of(result, name), ks[j], item.val)),
                      name, entries, ks, j + 1)

\* the loop over the tables of the document
RECURSIVE from_toml_tables(_, _, _, _)
from_toml_tables(result, tables, names, i) ==
    IF i > Len(names) THEN Outcome(result, Ok(None))
    ELSE LET made == new_table(result, names[i], tables[names[i]].comments)
         IN  IF ~made.ok THEN Outcome(result, made)
             ELSE LET inner == from_toml_items(made.val, names[i], tables[names[i]].entries,
                                               keys(tables[names[i]].entries), 1)
                  IN  IF ~inner.res.ok THEN inner
                      ELSE from_toml_tables(inner.cfg, tables, names, i + 1)

\* a TOML document holds its top-level values before its first table header
from_toml(doc) ==
    LET globals == from_toml_items(Config_new, "__GLOBAL__", doc.global, keys(doc.global), 1)
    IN  IF ~globals.res.ok THEN globals.res
        ELSE LET all == from_toml_tables(globals.cfg, doc.tables, keys(doc.tables), 1)
             IN  IF all.res.ok THEN Ok(all.cfg) ELSE all.res

(***************************************************************************)
(* The values and types the value operations are tried on.                 *)
(***************************************************************************)
BoolSamples == {TRUE, FALSE}
IntSamples == {-1, 0, 1}
StrSamples == {<<"a">>, <<"0", "x", "1", "F">>}

Scalars ==
    {Boolean(b) : b \in BoolSamples} \cup {Integer(i) : i \in IntSamples}
        \cup {String(s) : s \in StrSamples}

RECURSIVE ValuesOfSize(_), ValueSeqsOfSize(_)
\* the valid values of exactly n nodes
ValuesOfSize(n) ==
    (IF n = 1 THEN Scalars ELSE {}) \cup {Array(a) : a \in ValueSeqsOfSize(n - 1)}
\* the sequences of valid values of n nodes in all
ValueSeqsOfSize(n) ==
    IF n = 0 THEN {<<>>}
    ELSE UNION {{<<v>> \o rest : v \in ValuesOfSize(k), rest \in ValueSeqsOfSize(n - k)} :
                    k \in 1..n}

RECURSIVE value_size(_), value_seq_size(_)
value_size(value) == IF value.kind = "Array" THEN 1 + value_seq_size(value.arr) ELSE 1
value_seq_size(a) == IF a = <<>> THEN 0 ELSE value_size(Head(a)) + value_seq_size(Tail(a))

Values == UNION {ValuesOfSize(n) : n \in 1..MaxValueSize}

RECURSIVE AnyValuesOfSize(_), AnyValueSeqsOfSize(_)
\* the values of exactly n nodes, of the supported kinds and the others
AnyValuesOfSize(n) ==
    (IF n = 1 THEN Scalars \cup {Float} ELSE {})
        \cup {Array(a) : a \in AnyValueSeqsOfSize(n - 1)}
AnyValueSeqsOfSize(n) ==
    IF n = 0 THEN {<<>>}
    ELSE UNION {{<<v>> \o rest : v \in AnyValuesOfSize(k), rest \in AnyValueSeqsOfSize(n - k)} :
                    k \in 1..n}

\* the values a TOML text can parse to, 233.0 and [[1.5]] among them
AnyValues == UNION {AnyValuesOfSize(n) : n \in 1..MaxMatchValueSize}

\* nested arrays of test_type_infer, which are larger than MaxValueSize:
\* [[1], [2, 3], [4, 5, 6]], [[2, 3, 3], [4, 5, "abc", 7]], and [[1], [-1]]
NestedSamples ==
    { Array(<<Array(<<Integer(1)>>), Array(<<Integer(2), Integer(3)>>),
              Array(<<Integer(4), Integer(5), Integer(6)>>)>>),
      Array(<<Array(<<Integer(2), Integer(3), Integer(3)>>),
              Array(<<Integer(4), Integer(5), String(<<"a">>), Integer(7)>>)>>),
      Array(<<Array(<<Integer(1)>>), Array(<<Integer(-1)>>)>>) }

TypeAtoms == {TBool, TInt, TUint, TString, TUnknown}

RECURSIVE TypesOfSize(_), TypeSeqsOfSize(_)
\* the types of exactly n nodes
TypesOfSize(n) ==
    (IF n = 1 THEN TypeAtoms ELSE {TArray(e) : e \in TypesOfSize(n - 1)})
        \cup {TTuple(items) : items \in TypeSeqsOfSize(n - 1)}
\* the sequences of types of n nodes in all
TypeSeqsOfSize(n) ==
    IF n = 0 THEN {<<>>}
    ELSE UNION {{<<ty>> \o rest : ty \in TypesOfSize(k), rest \in TypeSeqsOfSize(n - k)} :
                    k \in 1..n}

Types == UNION {TypesOfSize(n) : n \in 1..MaxTypeSize}

(***************************************************************************)
(* The life of one ConfigValue: it is constructed from a raw value, then   *)
(* asked for its inferred type or whether it matches a type.               *)
(***************************************************************************)
InitValue ==
    /\ raw \in Values \cup NestedSamples \cup AnyValues
    /\ cv = None
    /\ inferred = None
    /\ matched = None
    /\ probe = None
    /\ cur = Config_new /\ before = None /\ arg = None /\ op = "new" /\ res = Ok(None)
    /\ ty_str = <<>> /\ ty_res = None

\* ConfigValue::new, after the TOML text is parsed
New ==
    /\ cv = None
    /\ cv' = new_with_value(raw)
    /\ UNCHANGED <<raw, inferred, matched, probe>>
    /\ UNCHANGED <<configVars, typeVars>>

\* ConfigValue::inferred_type
InferredType ==
    /\ cv /= None /\ cv.ok
    /\ inferred = None /\ matched = None
    /\ inferred' = inferred_type(cv.val.value)
    /\ UNCHANGED <<raw, cv, matched, probe>>
    /\ UNCHANGED <<configVars, typeVars>>

\* ConfigValue::type_matches, asked of a type
TypeMatches ==
    /\ cv /= None /\ cv.ok
    /\ inferred = None /\ matched = None
    /\ value_size(cv.val.value) <= MaxMatchValueSize
    /\ \E ty \in Types :
        matched' = [ty |-> ty, res |-> value_type_matches(cv.val.value, ty)]
    /\ UNCHANGED <<raw, cv, inferred, probe>>
    /\ UNCHANGED <<configVars, typeVars>>

\* ConfigValue::type_matches, asked of the type inferred_type returned
TypeMatchesInferred ==
    /\ inferred /= None /\ inferred.ok
    /\ matched = None
    /\ matched' = [ty |-> inferred.val, res |-> value_type_matches(cv.val.value, inferred.val)]
    /\ UNCHANGED <<raw, cv, inferred, probe>>
    /\ UNCHANGED <<configVars, typeVars>>

\* ConfigValue::new_with_type, after the TOML text and the type are parsed
NewWithValueType ==
    /\ cv = None
    /\ value_size(raw) <= MaxMatchValueSize
    /\ \E ty \in Types : cv' = new_with_value_type(raw, ty)
    /\ UNCHANGED <<raw, inferred, matched, probe>>
    /\ UNCHANGED <<configVars, typeVars>>

\* value_type_matches, applied to a value a constructor refused
ValueTypeMatches ==
    /\ cv /= None /\ ~cv.ok
    /\ probe = None
    /\ value_size(raw) <= MaxMatchValueSize
    /\ \E ty \in Types :
        probe' = [fn |-> "value_type_matches", ty |-> ty, res |-> value_type_matches(raw, ty)]
    /\ UNCHANGED <<raw, cv, inferred, matched>>
    /\ UNCHANGED <<configVars, typeVars>>

\* inferred_type, applied to a value a constructor refused
InferType ==
    /\ cv /= None /\ ~cv.ok
    /\ probe = None
    /\ probe' = [fn |-> "inferred_type", res |-> inferred_type(raw)]
    /\ UNCHANGED <<raw, cv, inferred, matched>>
    /\ UNCHANGED <<configVars, typeVars>>

NextValue ==
    \/ New
    \/ NewWithValueType
    \/ ValueTypeMatches
    \/ InferType
    \/ InferredType
    \/ TypeMatches
    \/ TypeMatchesInferred

SpecValue == InitValue /\ [][NextValue]_vars

(***************************************************************************)
(* Properties of inference and matching, checked under SpecValue.          *)
(***************************************************************************)
RECURSIVE has_empty_array(_)
has_empty_array(value) ==
    /\ value.kind = "Array"
    /\ \/ value.arr = <<>>
       \/ \E i \in 1..Len(value.arr) : has_empty_array(value.arr[i])

\* the value was asked whether it matches the type its inference returned
MatchedInferred == inferred /= None /\ matched /= None

\* C1 as claimed: every valid value, empty arrays included, matches its
\* inferred type.
C1_MatchesInferredAlways == MatchedInferred => matched.res

\* C1, amended: every valid value that holds no empty array at any nesting
\* depth matches its inferred type.
C1_MatchesInferred == (MatchedInferred /\ ~has_empty_array(raw)) => matched.res

C1_Witness ==
    /\ MatchedInferred
    /\ raw.kind = "Array" /\ Len(raw.arr) = 2
    /\ raw.arr[1].kind = "Array" /\ raw.arr[2].kind = "String"
    /\ ~has_empty_array(raw)
    /\ matched.res

\* the inferred types of the elements of an array
element_types(value) == [i \in 1..Len(value.arr) |-> inferred_type(value.arr[i]).val]

\* C8: an array with an element whose inferred type is Unknown, at whatever
\* position, and an empty array, infer Unknown.
C8_UnknownPropagates ==
    (/\ inferred /= None
     /\ raw.kind = "Array"
     /\ \/ raw.arr = <<>>
        \/ \E i \in 1..Len(raw.arr) : element_types(raw)[i] = TUnknown)
        => inferred = Ok(TUnknown)

\* the reference table of type matching, one level deep: the elements of an
\* array are matched by the code
match_table(value, ty) ==
    CASE value.kind = "Boolean" -> ty = TBool
      [] value.kind = "Integer" -> ty \in {TInt, TUint}
      [] value.kind = "String" ->
            IF is_num(value.s) THEN ty \in {TInt, TUint, TString} ELSE ty = TString
      [] value.kind = "Array" ->
            \/ /\ ty.t = "Tuple"
               /\ Len(ty.items) = Len(value.arr)
               /\ \A i \in 1..Len(value.arr) : value_type_matches(value.arr[i], ty.items[i])
            \/ /\ ty.t = "Array"
               /\ \A i \in 1..Len(value.arr) : value_type_matches(value.arr[i], ty.elem)

\* C9: whether a valid value matches a type is what the reference table says:
\* Bool matches only Bool; Int of any sign exactly Int and Uint; a
\* numeric-looking String exactly Int, Uint and String; another String only
\* String; an Array matches Tuple(Ts) iff the lengths are equal and each
\* element matches Ts[i], Array(T) iff every element matches T, and nothing
\* else; no value matches Unknown.
C9_MatchTable ==
    matched /= None =>
        /\ matched.res = match_table(cv.val.value, matched.ty)
        /\ matched.ty = TUnknown => ~matched.res

C9_Witness ==
    /\ matched /= None /\ inferred = None
    /\ raw.kind = "Array" /\ Len(raw.arr) = 2
    /\ raw.arr[1].kind = "Integer" /\ raw.arr[1].i < 0
    /\ matched.ty = TTuple(<<TUint, TString>>)
    /\ matched.res

\* C10: Bool infers Bool; Int(v) infers Int if v < 0 and Uint otherwise; a
\* String infers Uint if it is numeric-looking and String otherwise; a
\* non-empty array whose elements' inferred types are all not Unknown infers
\* Array(t) when every element's inferred type equals the first element's type
\* t, and otherwise the Tuple of the elements' types in their order.
C10_InferenceResult ==
    inferred /= None =>
        CASE raw.kind = "Boolean" -> inferred = Ok(TBool)
          [] raw.kind = "Integer" -> inferred = Ok(IF raw.i < 0 THEN TInt ELSE TUint)
          [] raw.kind = "String" -> inferred = Ok(IF is_num(raw.s) THEN TUint ELSE TString)
          [] raw.kind = "Array" ->
                LET ts == element_types(raw)
                IN  (ts /= <<>> /\ \A i \in 1..Len(ts) : ts[i] /= TUnknown) =>
                        inferred = Ok(IF \A i \in 1..Len(ts) : ts[i] = ts[1]
                                      THEN TArray(ts[1])
                                      ELSE TTuple(ts))

C10_Witness ==
    /\ inferred = Ok(TArray(TArray(TUint)))
    /\ Len(raw.arr) = 3
    /\ Len(raw.arr[1].arr) < Len(raw.arr[2].arr)

(***************************************************************************)
(* The parsed documents the configurations are read from.                  *)
(***************************************************************************)
Keys == {"a"}
DocTableNames == {"t", "__GLOBAL__"}

\* ` # uint` after a value, and no comment after it
UintSuffix == <<" ", "#", " ", "u", "i", "n", "t">>
NoSuffix == <<>>

DocEntries ==
    { [value |-> Integer(1), suffix |-> UintSuffix, prefix |-> "# doc"],
      [value |-> Integer(-5), suffix |-> NoSuffix, prefix |-> ""],
      [value |-> Boolean(TRUE), suffix |-> NoSuffix, prefix |-> ""],
      [value |-> Boolean(TRUE), suffix |-> UintSuffix, prefix |-> ""],
      [value |-> Array(<<>>), suffix |-> NoSuffix, prefix |-> ""] }

DocTableComments == {"", "# tbl"}

PartialFunctions(D, R) == UNION {[S -> R] : S \in SUBSET D}

DocTables == [comments : DocTableComments, entries : PartialFunctions(Keys, DocEntries)]

Docs ==
    [global : PartialFunctions(Keys, DocEntries),
     tables : PartialFunctions(DocTableNames, DocTables)]

\* documents with a second key and a second table: `b = -5`, `[A] a = -5`
\* and `[A] b = -5`
MoreDocs ==
    LET entry == [value |-> Integer(-5), suffix |-> NoSuffix, prefix |-> ""]
        none == <<>>
    IN  { [global |-> [k \in {"b"} |-> entry], tables |-> none],
          [global |-> none,
           tables |-> [n \in {"A"} |-> [comments |-> "", entries |-> [k \in {"a"} |-> entry]]]],
          [global |-> none,
           tables |-> [n \in {"A"} |-> [comments |-> "", entries |-> [k \in {"b"} |-> entry]]]] }

\* the configurations Config::from_toml returns
SourceConfigs == {from_toml(doc).val : doc \in {d \in Docs \cup MoreDocs : from_toml(d).ok}}

(***************************************************************************)
(* The life of one Config: it is created empty, then other configurations  *)
(* read from documents are merged into it and used to update it.           *)
(***************************************************************************)
InitConfig ==
    /\ cur = Config_new
    /\ before = None
    /\ arg = None
    /\ op = "new"
    /\ res = Ok(None)
    /\ raw = Boolean(TRUE) /\ cv = None /\ inferred = None /\ matched = None /\ probe = None
    /\ ty_str = <<>> /\ ty_res = None

\* no call is under way: the Config is new, or the last call has returned
Ready == op \in {"new", "idle"}

\* The call returns: the caller has the result and keeps the Config as the
\* call left it, also when the result is an error.
Return ==
    /\ ~Ready
    /\ op' = "idle"
    /\ before' = None
    /\ arg' = None
    /\ res' = Ok(None)
    /\ UNCHANGED <<cur, valueVars, typeVars>>

Merge(other) ==
    LET out == merge(cur, other)
    IN  /\ Ready
        /\ cur' = out.cfg
        /\ res' = out.res
        /\ before' = cur
        /\ arg' = other
        /\ op' = "merge"
        /\ UNCHANGED <<valueVars, typeVars>>

Update(other) ==
    LET out == update(cur, other)
    IN  /\ Ready
        /\ cur' = out.cfg
        /\ res' = out.res
        /\ before' = cur
        /\ arg' = other
        /\ op' = "update"
        /\ UNCHANGED <<valueVars, typeVars>>

(***************************************************************************)
(* output.rs and Config::dump: the output is the sequence of its lines; a  *)
(* line is kept as what it is made from, not as text.                      *)
(***************************************************************************)
OutputFormats == {"toml", "rust"}

\* Output::new
Output_new(fmt) == [fmt |-> fmt, indent |-> 0, result |-> <<>>]

\* Output::println_fmt
println(self, line) == [self EXCEPT !.result = Append(@, [line EXCEPT !.indent = self.indent])]

\* the doc lines of a Rust item or module: comments.lines()
comment_lines(self, comments) ==
    IF comments = "" THEN self
    ELSE println(self, [kind |-> "doc", text |-> comments, indent |-> 0])

\* Output::table_begin
table_begin(self, name, comments) ==
    IF self.fmt = "toml"
    THEN println(self, [kind |-> "table", name |-> name, comments |-> comments, indent |-> 0])
    ELSE [println(comment_lines(self, comments), [kind |-> "mod", name |-> name, indent |-> 0])
            EXCEPT !.indent = @ + 4]

\* Output::table_end
table_end(self) ==
    IF self.fmt = "rust"
    THEN println([self EXCEPT !.indent = @ - 4], [kind |-> "end", indent |-> 0])
    ELSE self

\* Output::write_item: the output after the call and the result
write_item(self, item) ==
    IF self.fmt = "toml"
    THEN [out |-> println(self, [kind |-> "item", comments |-> item.comments, key |-> item.key,
                                 value |-> item.value.value, indent |-> 0]),
          res |-> Ok(None)]
    ELSE LET out1 == comment_lines(self, item.comments)
             ty == IF item.value.ty /= None THEN Ok(item.value.ty)
                   ELSE inferred_type(item.value.value)
         IN  IF ~ty.ok THEN [out |-> out1, res |-> ty]
             ELSE IF ty.val = TUnknown
             THEN [out |-> out1, res |-> Err(Other("Unknown type for key", item.key))]
             ELSE [out |-> println(out1, [kind |-> "const", key |-> item.key, ty |-> ty.val,
                                          value |-> item.value.value, indent |-> 0]),
                   res |-> Ok(None)]

\* the inner loop of dump over the keys ks of table, from index j on: an
\* error of write_item is printed to stderr and the loop goes on
RECURSIVE dump_items(_, _, _, _)
dump_items(output, table, ks, j) ==
    IF j > Len(ks) THEN output
    ELSE dump_items(write_item(output, table[ks[j]]).out, table, ks, j + 1)

RECURSIVE dump_tables(_, _, _)
dump_tables(output, tabs, i) ==
    IF i > Len(tabs) THEN output
    ELSE LET name == tabs[i].name
             begun == IF name /= "__GLOBAL__"
                      THEN table_begin(output, name, tabs[i].comments) ELSE output
             written == dump_items(begun, tabs[i].table, keys(tabs[i].table), 1)
             ended == IF name /= "__GLOBAL__" THEN table_end(written) ELSE written
         IN  dump_tables(ended, tabs, i + 1)

\* Config::dump
dump(self, fmt) == Ok(dump_tables(Output_new(fmt), table_iter(self), 1).result)

(***************************************************************************)
(* main.rs: one `table.key=value` command of the command line.             *)
(***************************************************************************)
\* str::split_once: the parts before and after the first c, or None
split_once(str, c) ==
    IF \E i \in 1..Len(str) : str[i] = c
    THEN LET i == CHOOSE i \in 1..Len(str) :
                      str[i] = c /\ \A j \in 1..(i - 1) : str[j] /= c
         IN  Some(<<SubSeq(str, 1, i - 1), SubSeq(str, i + 1, Len(str))>>)
    ELSE None

GlobalNameChars == <<"_", "_", "G", "L", "O", "B", "A", "L", "_", "_">>

InvalidCommand == [kind |-> "Invalid config setting command"]
ItemNotFound == [kind |-> "Config item not found"]

\* parse_config_write_cmd
parse_config_write_cmd(cmd) ==
    LET item_value == split_once(cmd, "=")
    IN  IF item_value = None THEN Err(InvalidCommand)
        ELSE LET item == item_value.some[1]
                 value == item_value.some[2]
                 table_key == split_once(item, ".")
             IN  IF table_key /= None
                 THEN Ok([table |-> table_key.some[1], key |-> table_key.some[2], value |-> value])
                 ELSE Ok([table |-> GlobalNameChars, key |-> item, value |-> value])

\* the table name or key a text spells; "?" is a name no configuration holds
name_of(str) ==
    CASE str = <<"a">> -> "a"
      [] str = <<"t">> -> "t"
      [] str = GlobalNameChars -> "__GLOBAL__"
      [] OTHER -> "?"

\* str::parse::<Value> on the value texts of the commands
parse_value(str) ==
    CASE str = <<"1">> -> Integer(1)
      [] str = <<"t", "r", "u", "e">> -> Boolean(TRUE)
      [] str = <<"1", ".", "5">> -> Float

\* ConfigValue::update: the value is replaced when the item has no declared
\* type or the new value matches it, and the declared type is retained
ConfigValue_update(self, new_value) ==
    IF self.ty /= None /\ ~value_type_matches(new_value.value, self.ty)
    THEN Err(ValueTypeMismatch)
    ELSE Ok(ConfigValue(new_value.value, self.ty))

\* the body of the loop of main over args.write
write(self, cmd) ==
    LET parsed == parse_config_write_cmd(cmd)
    IN  IF ~parsed.ok THEN Outcome(self, parsed)
        ELSE LET table == name_of(parsed.val.table)
                 key == name_of(parsed.val.key)
                 new_value == new_with_value(parse_value(parsed.val.value))
             IN  IF ~new_value.ok THEN Outcome(self, new_value)
                 ELSE LET item == config_at(self, table, key)
                      IN  IF item = None THEN Outcome(self, Err(ItemNotFound))
                          ELSE LET updated == ConfigValue_update(item.some.value, new_value.val)
                               IN  IF ~updated.ok THEN Outcome(self, updated)
                                   ELSE Outcome(
                                            [self EXCEPT !.tables[table][key].value = updated.val],
                                            Ok(None))

WriteItems ==
    { <<"a">>, <<"t", ".", "a">>, GlobalNameChars \o <<".", "a">>, <<"t", ".", "t">>, <<"t">> }
WriteValues == { <<"1">>, <<"t", "r", "u", "e">>, <<"1", ".", "5">> }
WriteCmds == {item \o <<"=">> \o value : item \in WriteItems, value \in WriteValues} \cup {<<"a">>}

\* the names asked of the lookups: the reserved name, a table's and a key's
LookupNames == {"__GLOBAL__", "t", "a"}

TableAt(name) ==
    /\ Ready
    /\ res' = table_at(cur, name)
    /\ before' = cur
    /\ arg' = [table |-> name]
    /\ op' = "table_at"
    /\ UNCHANGED <<cur, valueVars, typeVars>>

ConfigAt(table, key) ==
    /\ Ready
    /\ res' = config_at(cur, table, key)
    /\ before' = cur
    /\ arg' = [table |-> table, key |-> key]
    /\ op' = "config_at"
    /\ UNCHANGED <<cur, valueVars, typeVars>>

Write(cmd) ==
    LET out == write(cur, cmd)
    IN  /\ Ready
        /\ cur' = out.cfg
        /\ res' = out.res
        /\ before' = cur
        /\ arg' = [cmd |-> cmd]
        /\ op' = "write"
        /\ UNCHANGED <<valueVars, typeVars>>

Dump(fmt) ==
    /\ Ready
    /\ res' = dump(cur, fmt)
    /\ before' = cur
    /\ arg' = [fmt |-> fmt]
    /\ op' = "dump"
    /\ UNCHANGED <<cur, valueVars, typeVars>>

\* the names and documentation new_table is called with
NewTableNames == {"__GLOBAL__", "t", "A"}

NewTable(name, comments) ==
    LET out == new_table(cur, name, comments)
    IN  /\ Ready
        /\ cur' = IF out.ok THEN out.val ELSE cur
        /\ res' = IF out.ok THEN Ok(None) ELSE out
        /\ before' = cur
        /\ arg' = [table |-> name, comments |-> comments]
        /\ op' = "new_table"
        /\ UNCHANGED <<valueVars, typeVars>>

\* an iterator handed to the caller, as the sequence of what it yields
Iterator(items) == [yields |-> items]

TableIter ==
    /\ Ready
    /\ res' = Iterator(table_iter(cur))
    /\ before' = cur
    /\ arg' = None
    /\ op' = "table_iter"
    /\ UNCHANGED <<cur, valueVars, typeVars>>

Iter ==
    /\ Ready
    /\ res' = Iterator(iter(cur))
    /\ before' = cur
    /\ arg' = None
    /\ op' = "iter"
    /\ UNCHANGED <<cur, valueVars, typeVars>>

NextConfig ==
    \/ Return
    \/ \E name \in NewTableNames, comments \in DocTableComments : NewTable(name, comments)
    \/ TableIter
    \/ Iter
    \/ \E other \in SourceConfigs : Merge(other)
    \/ \E fmt \in OutputFormats : Dump(fmt)
    \/ \E cmd \in WriteCmds : Write(cmd)
    \/ \E other \in SourceConfigs : Update(other)
    \/ \E name \in LookupNames : TableAt(name)
    \/ \E table \in LookupNames, key \in LookupNames : ConfigAt(table, key)

Spec == InitConfig /\ [][NextConfig]_vars

(***************************************************************************)
(* Properties of merge and update, checked under Spec.                     *)
(***************************************************************************)
table_names(cfg) == {"__GLOBAL__"} \cup DOMAIN cfg.tables
\* the (table, key) pairs of a configuration
slots(cfg) == UNION {{<<t, k>> : k \in DOMAIN table_of(cfg, t)} : t \in table_names(cfg)}
item_at(cfg, s) == table_of(cfg, s[1])[s[2]]
raw_at(cfg, s) == item_at(cfg, s).value.value
type_at(cfg, s) == item_at(cfg, s).value.ty

\* Current's item at s is declared Uint and Old holds a negative integer there
UintMeetsNegative(s) ==
    /\ s \in slots(before) /\ s \in slots(arg)
    /\ type_at(before, s) = TUint
    /\ raw_at(arg, s).kind = "Integer" /\ raw_at(arg, s).i < 0

\* no other item of Current has a declared type that Old's value does not match
OthersMatch(s) ==
    \A s2 \in (slots(before) \cap slots(arg)) \ {s} :
        type_at(before, s2) /= None => value_type_matches(raw_at(arg, s2), type_at(before, s2))

\* C2 as claimed: when Current's item is declared Uint and Old holds a negative
\* integer for it, update fails with TypeMismatch and the item's value stays.
C2_NegativeRejected ==
    op = "update" =>
        \A s \in slots(before) :
            UintMeetsNegative(s) =>
                (res = Err(ValueTypeMismatch) /\ item_at(cur, s).value = item_at(before, s).value)

\* C2, amended: a negative integer matches Uint (the sign is not checked), so
\* update does not fail on that item: unless another item mismatches, update
\* succeeds and the item's value becomes Old's negative integer, its declared
\* type still Uint.
C2_NegativeMatchesUint ==
    op = "update" =>
        \A s \in slots(before) :
            (UintMeetsNegative(s) /\ OthersMatch(s)) =>
                (res.ok /\ item_at(cur, s).value = ConfigValue(raw_at(arg, s), TUint))

C2_Witness ==
    /\ op = "update" /\ res.ok
    /\ \E s \in slots(before) :
        /\ UintMeetsNegative(s)
        /\ raw_at(before, s) = Integer(1)
        /\ item_at(cur, s).value = ConfigValue(Integer(-5), TUint)

\* C3: whenever update returns an error, Current is as it was before the call.
C3_UpdateAllOrNothing == (op = "update" /\ ~res.ok) => cur = before

\* C4: whenever merge returns an error, A holds exactly the tables, table
\* documentation and items it held before the call.
C4_MergeNoPartialMutation == (op = "merge" /\ ~res.ok) => cur = before

\* C5: merge returns a Duplicate-Key error, naming the key, if and only if a
\* table of B (the global one or a named one) holds a key that A's table of
\* the same name holds; merge never replaces an item A holds.
C5_MergeDuplicateRejection ==
    op = "merge" =>
        LET shared == slots(before) \cap slots(arg)
        IN  /\ ~res.ok <=> shared /= {}
            /\ ~res.ok =>
                    /\ res.err.kind = "Other" /\ res.err.what = "Duplicate key"
                    /\ \E s \in shared : res.err.name = s[2]
            /\ \A s \in slots(before) : s \in slots(cur) /\ item_at(cur, s) = item_at(before, s)

C5_Witness ==
    /\ op = "merge" /\ ~res.ok
    /\ <<"t", "a">> \in slots(before) \cap slots(arg)
    /\ <<"__GLOBAL__", "a">> \notin slots(before) \cap slots(arg)
    /\ item_at(before, <<"t", "a">>) /= item_at(arg, <<"t", "a">>)
    /\ res.err.name = "a"

\* the tables of both configurations are the same, and hold the same keys with
\* the same value and declared type
same_content(x, y) ==
    /\ DOMAIN x.tables = DOMAIN y.tables
    /\ slots(x) = slots(y)
    /\ \A s \in slots(x) : item_at(x, s).value = item_at(y, s).value

\* C6: for A and B that share no (table, key) pair, merge(A, B) and
\* merge(B, A) both succeed, and yield the same tables holding the same keys
\* with the same value and declared type.
C6_MergeDisjointCommutes ==
    (op = "merge" /\ slots(before) \cap slots(arg) = {}) =>
        /\ res.ok
        /\ merge(arg, before).res.ok
        /\ same_content(cur, merge(arg, before).cfg)

C6_Witness ==
    /\ op = "merge" /\ res.ok
    /\ slots(before) /= {} /\ slots(arg) /= {}
    /\ "t" \in DOMAIN before.tables /\ "t" \in DOMAIN arg.tables
    /\ cur.table_comments /= merge(arg, before).cfg.table_comments

\* C7: after a successful update Current has the tables and keys it had; an
\* item without a declared type, or whose (table, key) Old does not hold, is
\* unchanged; any other item holds Old's raw value for the key, which matches
\* its declared type T, and keeps T, its key and its documentation.
C7_UpdateTypeGating ==
    (op = "update" /\ res.ok) =>
        /\ DOMAIN cur.tables = DOMAIN before.tables
        /\ cur.table_comments = before.table_comments
        /\ slots(cur) = slots(before)
        /\ \A s \in slots(cur) :
            IF type_at(before, s) = None \/ s \notin slots(arg)
            THEN item_at(cur, s) = item_at(before, s)
            ELSE /\ raw_at(cur, s) = raw_at(arg, s)
                 /\ value_type_matches(raw_at(cur, s), type_at(before, s))
                 /\ type_at(cur, s) = type_at(before, s)
                 /\ item_at(cur, s).key = item_at(before, s).key
                 /\ item_at(cur, s).comments = item_at(before, s).comments

C7_Witness ==
    /\ op = "update" /\ res.ok
    /\ \E s \in slots(cur) \cap slots(arg) :
        /\ type_at(before, s) /= None
        /\ raw_at(cur, s) /= raw_at(before, s)
        /\ item_at(arg, s).comments /= item_at(cur, s).comments
    /\ \E s \in slots(cur) \cap slots(arg) :
        /\ type_at(before, s) = None
        /\ raw_at(arg, s) /= raw_at(before, s)

(***************************************************************************)
(* Parsing type expressions: ConfigType::new on its own.                   *)
(***************************************************************************)
\* tokens a type expression is put together from
MaxTypeTokens == 5
TypeTokens ==
    { <<"(">>, <<")">>, <<"[">>, <<"]">>, <<",">>, <<" ">>,
      <<"i", "n", "t">>, <<"u">> }

RECURSIVE TokenStrings(_)
TokenStrings(n) ==
    IF n = 0 THEN {<<>>}
    ELSE LET shorter == TokenStrings(n - 1)
         IN  shorter \cup {t \o s : t \in TypeTokens, s \in shorter}

\* the type expressions of test_err and of the tests of value.rs
TypeSamples ==
    { <<"B", "o", "o", "l">>, <<"u", "s", "i", "z", "e">>, <<"&", "s", "t", "r">>,
      <<"b", "o", "o", "l">>, <<"s", "t", "r">>, <<"?">>,
      <<"(", "(", ")", "(", ")", ")">>,
      <<"(", "(", ")", ",", "(", ")", ")">>,
      <<"(", " ", " ", ")">>,
      <<"[", "u", "i", "n", "t", ",", " ", "u", "i", "n", "t", "]">>,
      <<"(", "i", "n", "t", ",", " ", "[", "(", "u", "i", "n", "t", ",", "s", "t", "r", ")", "]", ")">>,
      <<"[", "[", "(", "b", "o", "o", "l", ",", "i", "n", "t", ")", "]", "]">> }

TypeStrings == TokenStrings(MaxTypeTokens) \cup TypeSamples

InitType ==
    /\ ty_str \in TypeStrings
    /\ ty_res = None
    /\ raw = Boolean(TRUE) /\ cv = None /\ inferred = None /\ matched = None /\ probe = None
    /\ cur = Config_new /\ before = None /\ arg = None /\ op = "new" /\ res = Ok(None)

\* ConfigType::new
TypeNew ==
    /\ ty_res = None
    /\ ty_res' = ConfigType_new(ty_str)
    /\ UNCHANGED <<ty_str, valueVars, configVars>>

NextType == TypeNew

SpecType == InitType /\ [][NextType]_vars

\* the grammar of type expressions, on a string without spaces
RECURSIVE is_type(_), is_type_list(_)
is_type(s) ==
    \/ s \in {<<"b", "o", "o", "l">>, <<"i", "n", "t">>, <<"u", "i", "n", "t">>, <<"s", "t", "r">>}
    \/ s = <<"(", ")">>
    \/ /\ Len(s) >= 3 /\ s[1] = "(" /\ s[Len(s)] = ")"
       /\ is_type_list(SubSeq(s, 2, Len(s) - 1))
    \/ /\ Len(s) >= 3 /\ s[1] = "[" /\ s[Len(s)] = "]"
       /\ is_type(SubSeq(s, 2, Len(s) - 1))

\* T1 ',' ... ',' Tn with n >= 1
is_type_list(s) ==
    \/ is_type(s)
    \/ \E i \in 2..(Len(s) - 1) :
        /\ s[i] = ","
        /\ is_type(SubSeq(s, 1, i - 1))
        /\ is_type_list(SubSeq(s, i + 1, Len(s)))

\* C11: ConfigType::new succeeds if and only if the expression, its spaces
\* removed, is an atom (bool, int, uint, str), the empty tuple "()", a tuple
\* "(T1,...,Tn)" of valid types, or an array "[T]" of one valid type; every
\* other expression yields InvalidType.
C11_TypeGrammar ==
    ty_res /= None =>
        /\ ty_res.ok <=> is_type(remove_char(ty_str, " "))
        /\ ~ty_res.ok => ty_res = Err(InvalidType)

C11_Witness ==
    /\ ty_res = Err(InvalidType)
    /\ ty_str = <<"(", "u", "i", "n", "t", ",", ")">>

(***************************************************************************)
(* Lookups, point-writes, traversal and rendering, checked under Spec.     *)
(***************************************************************************)
\* the last point-write command is well-formed, holds a valid value and
\* addresses the (table, key) s
WriteAddresses(s) ==
    LET parsed == parse_config_write_cmd(arg.cmd)
    IN  /\ parsed.ok
        /\ value_is_valid(parse_value(parsed.val.value))
        /\ s = <<name_of(parsed.val.table), name_of(parsed.val.key)>>

\* C12: table_at called with the reserved global name returns the global
\* table, and config_at called with the reserved name and a key of the global
\* table returns the global item of that key; so a point-write command
\* without a table prefix finds the global key it names when it exists.
C12_LookupReserved ==
    /\ (op = "table_at" /\ arg.table = "__GLOBAL__") => res = Some(cur.global)
    /\ (op = "config_at" /\ arg.table = "__GLOBAL__" /\ arg.key \in DOMAIN cur.global) =>
            res = Some(cur.global[arg.key])
    /\ (op = "write" /\ WriteAddresses(<<"__GLOBAL__", "a">>) /\ split_once(arg.cmd, ".") = None) =>
            (<<"__GLOBAL__", "a">> \in slots(before) => res /= Err(ItemNotFound))

\* C14: a point-write to a (table, key) the configuration does not hold fails
\* with Not-Found; one to an item whose declared type the new value does not
\* match fails with Type-Mismatch; both leave the configuration unchanged; a
\* successful one changes only that item's value and retains its declared type.
C14_PointWrite ==
    \A s \in {"__GLOBAL__", "t", "?"} \X {"a", "t", "?"} :
        (op = "write" /\ WriteAddresses(s)) =>
            LET new_raw == parse_value(parse_config_write_cmd(arg.cmd).val.value)
            IN  /\ s \notin slots(before) => (res = Err(ItemNotFound) /\ cur = before)
                /\ (/\ s \in slots(before)
                    /\ type_at(before, s) /= None
                    /\ ~value_type_matches(new_raw, type_at(before, s))) =>
                        (res = Err(ValueTypeMismatch) /\ cur = before)
                /\ res.ok =>
                        /\ s \in slots(before)
                        /\ DOMAIN cur.tables = DOMAIN before.tables
                        /\ cur.table_comments = before.table_comments
                        /\ slots(cur) = slots(before)
                        /\ \A s2 \in slots(cur) \ {s} : item_at(cur, s2) = item_at(before, s2)
                        /\ item_at(cur, s) = [item_at(before, s) EXCEPT !.value.value = new_raw]

\* the type rendering resolves for an item: the declared one, else the inferred
resolved_type(item) ==
    IF item.value.ty /= None THEN Ok(item.value.ty) ELSE inferred_type(item.value.value)

\* C13: rendering (as Rust code, which needs every item's type) a
\* configuration that holds an item whose resolved type is Unknown makes dump
\* fail with an Unknown-type error for the key of such an item.
C13_DumpUnknownFails ==
    (op = "dump" /\ arg.fmt = "rust") =>
        \A s \in slots(cur) :
            resolved_type(item_at(cur, s)) = Ok(TUnknown) =>
                /\ ~res.ok
                /\ res.err.kind = "Other" /\ res.err.what = "Unknown type for key"

\* the bytes of a name
name_bytes(name) ==
    CASE name = "__GLOBAL__" -> <<95, 95, 71, 76, 79, 66, 65, 76, 95, 95>>
      [] name = "A" -> <<65>>
      [] name = "a" -> <<97>>
      [] name = "b" -> <<98>>
      [] name = "t" -> <<116>>

\* x is before y in the lexicographic order of their bytes
name_less(x, y) ==
    LET bx == name_bytes(x)
        by == name_bytes(y)
    IN  \/ Len(bx) < Len(by) /\ SubSeq(by, 1, Len(bx)) = bx
        \/ \E i \in 1..Len(bx) :
            /\ i <= Len(by)
            /\ SubSeq(bx, 1, i - 1) = SubSeq(by, 1, i - 1)
            /\ bx[i] < by[i]

\* the sequence of names lists the set S, each once, in lexicographic order
lists_in_order(names, S) ==
    /\ {names[i] : i \in 1..Len(names)} = S
    /\ \A i, j \in 1..Len(names) : i < j => name_less(names[i], names[j])

\* the names table_iter yields and, per table, the keys the table yields
traversal(tabs) ==
    [i \in 1..Len(tabs) |-> [name |-> tabs[i].name, keys |-> keys(tabs[i].table)]]

\* every table of the traversal yields its keys in lexicographic order
keys_in_order(self, tabs) ==
    \A i \in 1..Len(tabs) :
        /\ tabs[i].table = table_of(self, tabs[i].name)
        /\ lists_in_order(keys(tabs[i].table), DOMAIN tabs[i].table)

\* merging two sources that share no (table, key) in either order gives the
\* same traversal
same_traversal_either_way ==
    (op = "merge" /\ res.ok /\ slots(before) \cap slots(arg) = {}) =>
        traversal(table_iter(cur)) = traversal(table_iter(merge(arg, before).cfg))

\* C15 as claimed: table_iter yields the tables, the global one under its
\* reserved name among them, in the lexicographic order of their names, each
\* table yields its keys in lexicographic order, and the traversal does not
\* depend on the order of merging.
C15_LexicographicTables ==
    /\ op = "table_iter" =>
        /\ lists_in_order([i \in 1..Len(res.yields) |-> res.yields[i].name], table_names(cur))
        /\ keys_in_order(cur, res.yields)
    /\ same_traversal_either_way

\* C15, amended: table_iter yields the global table first, whatever the names
\* of the other tables, and then the named tables in the lexicographic order
\* of their names; each table yields its keys in lexicographic order; the
\* traversal depends only on the tables and keys present, not on the order of
\* merging.
C15_GlobalThenLexicographic ==
    /\ op = "table_iter" =>
        /\ res.yields[1].name = "__GLOBAL__"
        /\ lists_in_order([i \in 1..(Len(res.yields) - 1) |-> res.yields[i + 1].name], DOMAIN cur.tables)
        /\ keys_in_order(cur, res.yields)
    /\ same_traversal_either_way

C15_Witness ==
    /\ op = "table_iter"
    /\ [i \in 1..Len(res.yields) |-> res.yields[i].name] = <<"__GLOBAL__", "A", "t">>
    /\ keys(res.yields[1].table) = <<"a", "b">>
    /\ keys(res.yields[2].table) = <<"a", "b">>

\* the operations that can change the Config
Mutations == {"merge", "update", "write", "new_table"}

\* C16: new_table fails, and leaves the Config as it is, if the name is the
\* reserved global name or already names a table, and otherwise adds an empty
\* table of that name; the reserved name is never a key of the named tables,
\* of the Config or of a Config read from a document; no operation removes a
\* named table or any of its keys, so none is replaced by an empty one.
C16_ReservedName ==
    /\ "__GLOBAL__" \notin DOMAIN cur.tables
    /\ op \in {"merge", "update"} => "__GLOBAL__" \notin DOMAIN arg.tables
    /\ op = "new_table" =>
        /\ res.ok <=> (arg.table /= "__GLOBAL__" /\ arg.table \notin DOMAIN before.tables)
        /\ ~res.ok => cur = before
        /\ res.ok =>
            /\ cur.global = before.global
            /\ DOMAIN cur.tables = DOMAIN before.tables \cup {arg.table}
            /\ cur.tables[arg.table] = <<>>
            /\ cur.table_comments[arg.table] = arg.comments
    /\ op \in Mutations =>
        \A n \in DOMAIN before.tables :
            /\ n \in DOMAIN cur.tables
            /\ DOMAIN before.tables[n] \subseteq DOMAIN cur.tables[n]
            /\ cur.table_comments[n] = before.table_comments[n]

C16_Witness ==
    /\ op = "new_table" /\ ~res.ok
    /\ arg.table = "t" /\ arg.comments = "# tbl"
    /\ before.tables["t"] /= <<>>
    /\ before.table_comments["t"] = ""

RECURSIVE contains_unsupported(_)
\* the value is, or holds at some depth, a float, a table or a datetime
contains_unsupported(value) ==
    IF value.kind = "Array"
    THEN \E i \in 1..Len(value.arr) : contains_unsupported(value.arr[i])
    ELSE value.kind \notin {"Boolean", "Integer", "String"}

\* C17: a value that holds an unsupported kind (float, table, datetime) at
\* any nesting depth is refused with InvalidValue by new_with_value and by
\* new_with_value_type, matches no type and makes inference return
\* InvalidValue; the constructors refuse a value as invalid only if it holds
\* such a kind: Bool, Int, String and arrays of valid values are valid.
C17_ValidityNecessity ==
    /\ cv /= None => (cv = Err(InvalidValue) <=> contains_unsupported(raw))
    /\ (probe /= None /\ contains_unsupported(raw)) =>
        /\ probe.fn = "value_type_matches" => ~probe.res
        /\ probe.fn = "inferred_type" => probe.res = Err(InvalidValue)

C17_Witness ==
    /\ raw = Array(<<Array(<<Float>>)>>)
    /\ cv = Err(InvalidValue)
    /\ probe /= None /\ probe.fn = "value_type_matches"
    /\ probe.ty = TArray(TArray(TUint))

\* the (table name, key, item) triples of a configuration
triples(self) ==
    {[table |-> "__GLOBAL__", key |-> k, item |-> self.global[k]] : k \in DOMAIN self.global}
        \cup UNION {{[table |-> n, key |-> k, item |-> self.tables[n][k]] :
                        k \in DOMAIN self.tables[n]} : n \in DOMAIN self.tables}

\* how many times a sequence yields x
occurrences(yields, x) == Cardinality({i \in 1..Len(yields) : yields[i] = x})

\* C18: Config::iter yields every (table name, key, item) triple of the
\* configuration, the global items under the reserved name and the others
\* under their table's name, exactly once: none repeated, none omitted, and
\* nothing else.
C18_EachItemOnce ==
    op = "iter" =>
        /\ \A x \in triples(cur) : occurrences(res.yields, x) = 1
        /\ \A i \in 1..Len(res.yields) : res.yields[i] \in triples(cur)

\* an item's declared type, None when it has none
declared(x) == x.item.value.ty

\* C19: in every configuration reached by reading documents, merge, update
\* and point-write, every item that carries a declared type T holds a valid
\* value that matches T; no operation changes, adds or removes the declared
\* type of an item that is there; merge copies the items it takes, their
\* declared types with them, unchanged.
C19_DeclaredType ==
    /\ \A x \in triples(cur) :
        declared(x) /= None =>
            /\ value_is_valid(x.item.value.value)
            /\ value_type_matches(x.item.value.value, declared(x))
    /\ op \in Mutations =>
        \A x \in triples(before) :
            \E y \in triples(cur) :
                y.table = x.table /\ y.key = x.key /\ declared(y) = declared(x)
    /\ (op = "merge" /\ res.ok) => triples(arg) \subseteq triples(cur)

C19_Witness ==
    /\ op = "update" /\ res.ok
    /\ "a" \in DOMAIN before.global /\ "a" \in DOMAIN arg.global
    /\ before.global["a"].value = ConfigValue(Integer(1), TUint)
    /\ arg.global["a"].value = ConfigValue(Integer(-5), None)
    /\ cur.global["a"].value = ConfigValue(Integer(-5), TUint)

====
